---- MODULE Spec2Model ----
(***************************************************************************)
(* State-machine model of the session lifecycle manager:                   *)
(*   api/services/session_manager.py  (SessionState, SessionManager:       *)
(*       resolution, list_sessions, the expiry scheduler, shutdown)        *)
(*   api/routers/chat.py              (handle_chat: one agent turn)        *)
(* Every coroutine is a process with a program counter; one action is the  *)
(* code between two suspension points (await / lock acquisition).          *)
(* handle_chat gets (client, state) from the manager's resolution of the   *)
(* session id; the resolution is get_or_create_session. The two counters   *)
(* handle_chat keeps on the record start at 0 (ChatInfo's defaults).       *)
(***************************************************************************)
EXTENDS Integers, Sequences, FiniteSets, TLC

(***************************************************************************)
(* Bounds of the model.                                                    *)
(***************************************************************************)
\* the clock advances MaxTicks times, MinutesPerTick minutes each time
MaxTicks == 2
\* completed turns one SessionState can count
MaxTurns == 2
\* ClaudeSDKClient objects the manager constructs, one after each shutdown
MaxClients == 2

(***************************************************************************)
(* Program constants.                                                      *)
(***************************************************************************)
SESSION_TIMEOUT_MINUTES == 30
\* uuid.UUID: a GUID is 32 hexadecimal digits
GuidHexLen == 32
\* one tick of the clock is as long as the idle timeout, so that a record is
\* seen at the age of exactly the timeout and at twice that age
MinutesPerTick == SESSION_TIMEOUT_MINUTES

\* concurrent requests (coroutines running handle_chat)
Reqs == {"r1", "r2"}
\* reference to no object (Python's None)
None == 0
\* concurrent cleanup_loop tasks that start_cleanup_task can create
Tasks == {"t1", "t2"}
\* the value of total_cost_usd before a ResultMessage arrived, or of a
\* ResultMessage that reports no cost (Python's None)
NoCost == -1
\* costs a ResultMessage can report, in thousandths of a dollar
Costs == {1, 2}
\* holder of a free lock
Free == "free"

(***************************************************************************)
(* Session ids as the caller supplies them: texts, as sequences of         *)
(* characters.                                                             *)
(***************************************************************************)
Hex4 == <<"1", "a", "2", "B">>
Hex8 == Hex4 \o Hex4
Hex12 == Hex8 \o Hex4
Hex32 == Hex8 \o Hex8 \o Hex8 \o Hex8
Dash == <<"-">>

IdText(id) ==
    CASE id = "canon"  -> Hex8 \o Dash \o Hex4 \o Dash \o Hex4 \o Dash \o Hex4 \o Dash \o Hex12
      [] id = "urn"    -> <<"u", "r", "n", ":", "u", "u", "i", "d", ":", "{">> \o Hex32 \o <<"}">>
      [] id = "short"  -> Hex8 \o Hex8 \o Hex8 \o Hex4
      [] id = "word"   -> <<"n", "o", "t", "-", "a", "-", "g", "u", "i", "d">>
      [] id = "nonhex" -> Hex8 \o Hex8 \o Hex8 \o Hex4 \o <<"g", "h", "i", "j">>
      [] id = "empty"  -> <<>>

SessionIds == {"canon", "urn", "short", "word", "nonhex", "empty"}

HexDigits == {"0", "1", "2", "3", "4", "5", "6", "7", "8", "9",
              "a", "b", "c", "d", "e", "f", "A", "B", "C", "D", "E", "F"}

\* str.replace(pat, ''): every non-overlapping occurrence of pat, left to right
RECURSIVE RemoveAll(_, _)
RemoveAll(s, pat) ==
    IF Len(s) < Len(pat) THEN s
    ELSE IF SubSeq(s, 1, Len(pat)) = pat
         THEN RemoveAll(SubSeq(s, Len(pat) + 1, Len(s)), pat)
         ELSE <<Head(s)>> \o RemoveAll(Tail(s), pat)

\* str.strip(chars): leading and trailing characters of the set removed
RECURSIVE StripLeft(_, _)
StripLeft(s, chars) ==
    IF s # <<>> /\ Head(s) \in chars THEN StripLeft(Tail(s), chars) ELSE s

RECURSIVE StripRight(_, _)
StripRight(s, chars) ==
    IF s # <<>> /\ s[Len(s)] \in chars
    THEN StripRight(SubSeq(s, 1, Len(s) - 1), chars) ELSE s

Strip(s, chars) == StripRight(StripLeft(s, chars), chars)

\* UuidParses without the check of the length
UuidParsesAnyLength(text) ==
    LET h1 == RemoveAll(RemoveAll(text, <<"u", "r", "n", ":">>), <<"u", "u", "i", "d", ":">>)
        h2 == RemoveAll(Strip(h1, {"{", "}"}), Dash)
    IN  \A i \in 1..Len(h2) : h2[i] \in HexDigits

\* uuid.UUID(hex) returns (TRUE) or raises ValueError (FALSE)
UuidParses(text) ==
    LET h1 == RemoveAll(RemoveAll(text, <<"u", "r", "n", ":">>), <<"u", "u", "i", "d", ":">>)
        h2 == RemoveAll(Strip(h1, {"{", "}"}), Dash)
    IN  /\ Len(h2) = GuidHexLen
        /\ \A i \in 1..Len(h2) : h2[i] \in HexDigits

\* SessionManager._validate_guid
ValidateGuid(session_id) == UuidParses(IdText(session_id))

ValidIds == {id \in SessionIds : ValidateGuid(id)}

\* SessionState objects alive at once: one per key of the mapping and one
\* more per request that still refers to a record the mapping dropped
Objs == 1..(Cardinality(ValidIds) + Cardinality(Reqs))

NoError == [kind |-> "none", session_id |-> "none"]
\* SessionExpiredError(session_id)
SessionExpiredError(session_id) == [kind |-> "SessionExpiredError", session_id |-> session_id]
\* InvalidSessionIdError(session_id)
InvalidSessionIdError(session_id) == [kind |-> "InvalidSessionIdError", session_id |-> session_id]
\* what handle_chat's `except Exception` turns into HTTP 422
TurnFailure(session_id) == [kind |-> "TurnFailure", session_id |-> session_id]
\* asyncio.CancelledError thrown into handle_chat: a BaseException, which
\* `except Exception` (line 125) lets through
CancelledError(session_id) == [kind |-> "CancelledError", session_id |-> session_id]
\* an exception of ClaudeSDKClient.connect leaving get_or_create_session
ConnectFailure(session_id) == [kind |-> "ConnectFailure", session_id |-> session_id]

VARIABLES
    now,                      \* datetime.now(), in minutes
    client,                   \* SessionManager._client: a ClaudeSDKClient or None
    connected,                \* the ClaudeSDKClient objects that are connected
    nClients,                 \* ClaudeSDKClient objects constructed so far
    clientLock,               \* holder of SessionManager._client_lock
    sessions,                 \* SessionManager._sessions: id -> SessionState or None
    sessionsLock,             \* holder of SessionManager._sessions_lock
    obj_session_id,           \* SessionState.session_id
    last_accessed,            \* SessionState.last_accessed
    lock,                     \* holder of SessionState.lock
    running_total_cost_usd,   \* the record's running cost
    dialogue_turn,            \* the record's turn counter
    cleanup_task,             \* SessionManager._cleanup_task
    tpc,                      \* where each cleanup_loop task is
    expired_ids,              \* cleanup_expired_sessions' local expired_ids
    pc,                       \* where each request is
    rsid,                     \* the request's session_id argument
    rclient,                  \* the request's local `client`
    rstate,                   \* the request's local `state`
    rerr,                     \* how the request ended
    total_cost_usd,           \* the request's local total_cost_usd
    turn0, cost0,             \* the record's counters as the turn found them
    spc,                      \* where the coroutine running shutdown() is
    awaited,                  \* the task shutdown() awaits at line 168
    cancelling,               \* the tasks with cancel() requested, not yet delivered
    shut_down,                \* shutdown() has returned, at least once
    lpc,                      \* where the coroutine running list_sessions() is
    listing                   \* what list_sessions() returned last

mgrVars == <<client, connected, nClients, clientLock>>
mapVars == <<sessions, sessionsLock>>
objVars == <<obj_session_id, last_accessed, lock, running_total_cost_usd, dialogue_turn>>
taskVars == <<cleanup_task, tpc, expired_ids>>
reqVars == <<pc, rsid, rclient, rstate, rerr, total_cost_usd, turn0, cost0>>
lifeVars == <<spc, awaited, cancelling, shut_down, lpc, listing>>
vars == <<now, mgrVars, mapVars, objVars, taskVars, reqVars, lifeVars>>

\* SessionManager.__init__, and no request in flight
Init ==
    /\ now = 0
    /\ client = None
    /\ connected = {}
    /\ nClients = 0
    /\ clientLock = Free
    /\ sessions = [id \in SessionIds |-> None]
    /\ sessionsLock = Free
    /\ obj_session_id = [o \in Objs |-> "unset"]
    /\ last_accessed = [o \in Objs |-> 0]
    /\ lock = [o \in Objs |-> Free]
    /\ running_total_cost_usd = [o \in Objs |-> 0]
    /\ dialogue_turn = [o \in Objs |-> 0]
    /\ cleanup_task = "none"
    /\ tpc = [t \in Tasks |-> "unstarted"]
    /\ expired_ids = [t \in Tasks |-> {}]
    /\ pc = [r \in Reqs |-> "idle"]
    /\ rsid = [r \in Reqs |-> "unset"]
    /\ rclient = [r \in Reqs |-> None]
    /\ rstate = [r \in Reqs |-> None]
    /\ rerr = [r \in Reqs |-> NoError]
    /\ total_cost_usd = [r \in Reqs |-> NoCost]
    /\ turn0 = [r \in Reqs |-> 0]
    /\ cost0 = [r \in Reqs |-> 0]
    /\ spc = "idle"
    /\ awaited = "none"
    /\ cancelling = {}
    /\ shut_down = FALSE
    /\ lpc = "idle"
    /\ listing = {}

\* time passes
Tick ==
    /\ now + MinutesPerTick <= MaxTicks * MinutesPerTick
    /\ now' = now + MinutesPerTick
    /\ UNCHANGED <<lifeVars, mgrVars, mapVars, objVars, taskVars, reqVars>>

(***************************************************************************)
(* SessionState                                                            *)
(***************************************************************************)
\* is_expired with >= for >
is_expired_at_timeout(o) == now - last_accessed[o] >= SESSION_TIMEOUT_MINUTES

\* SessionState.is_expired
is_expired(o) == now - last_accessed[o] > SESSION_TIMEOUT_MINUTES

\* the records that are in the mapping
Mapped == {sessions[id] : id \in SessionIds} \ {None}

\* a SessionState the program still refers to
Referenced(o) == (\E id \in SessionIds : sessions[id] = o) \/ (\E r \in Reqs : rstate[r] = o)

\* the object SessionState(session_id=...) constructs
NewObj == CHOOSE o \in Objs : ~Referenced(o) /\ \A p \in Objs : ~Referenced(p) => o <= p

\* the interpreter frees a SessionState nothing refers to any more: its slot
\* is blank until SessionState(...) constructs the next object in it
Reclaim(dead) ==
    /\ obj_session_id' = [o \in Objs |-> IF o \in dead THEN "unset" ELSE obj_session_id[o]]
    /\ last_accessed' = [o \in Objs |-> IF o \in dead THEN 0 ELSE last_accessed[o]]
    /\ running_total_cost_usd' =
           [o \in Objs |-> IF o \in dead THEN 0 ELSE running_total_cost_usd[o]]
    /\ dialogue_turn' = [o \in Objs |-> IF o \in dead THEN 0 ELSE dialogue_turn[o]]
    /\ UNCHANGED lock

\* the records among `removed` that no request's `state` refers to
Unheld(removed) == {o \in removed : \A r \in Reqs : rstate[r] # o}

(***************************************************************************)
(* SessionManager.get_or_create_session                                    *)
(***************************************************************************)
\* a request arrives; lines 95-96: a malformed id raises at once
Call(r, id) ==
    /\ pc[r] = "idle"
    /\ rsid' = [rsid EXCEPT ![r] = id]
    /\ IF ValidateGuid(id)
       THEN /\ pc' = [pc EXCEPT ![r] = "ensure_client"]
            /\ UNCHANGED rerr
       ELSE /\ pc' = [pc EXCEPT ![r] = "finished"]
            /\ rerr' = [rerr EXCEPT ![r] = InvalidSessionIdError(id)]
    /\ UNCHANGED <<now, lifeVars, mgrVars, mapVars, objVars, taskVars, rclient, rstate,
                   total_cost_usd, turn0, cost0>>

\* _ensure_client, lines 58-62 and 64: takes _client_lock; with a client
\* recorded it returns it, otherwise it records a new one and awaits connect()
EnsureClient(r) ==
    /\ pc[r] = "ensure_client"
    /\ clientLock = Free
    /\ IF client = None
       THEN /\ nClients < MaxClients
            /\ client' = nClients + 1
            /\ nClients' = nClients + 1
            /\ clientLock' = r
            /\ pc' = [pc EXCEPT ![r] = "connecting"]
            /\ UNCHANGED rclient
       ELSE /\ rclient' = [rclient EXCEPT ![r] = client]
            /\ pc' = [pc EXCEPT ![r] = "want_sessions"]
            /\ UNCHANGED <<client, nClients, clientLock>>
    /\ UNCHANGED <<now, lifeVars, connected, mapVars, objVars, taskVars, rsid, rstate, rerr,
                   total_cost_usd, turn0, cost0>>

\* _ensure_client, lines 62-64: connect() returned
ConnectOk(r) ==
    /\ pc[r] = "connecting"
    /\ connected' = connected \cup {client}
    /\ rclient' = [rclient EXCEPT ![r] = client]
    /\ clientLock' = Free
    /\ pc' = [pc EXCEPT ![r] = "want_sessions"]
    /\ UNCHANGED <<now, lifeVars, client, nClients, mapVars, objVars, taskVars, rsid, rstate, rerr,
                   total_cost_usd, turn0, cost0>>

\* _ensure_client, line 62: connect() raised; the exception leaves
\* get_or_create_session through the `async with`
ConnectRaise(r) ==
    /\ pc[r] = "connecting"
    /\ clientLock' = Free
    /\ pc' = [pc EXCEPT ![r] = "finished"]
    /\ rerr' = [rerr EXCEPT ![r] = ConnectFailure(rsid[r])]
    /\ UNCHANGED <<now, lifeVars, client, connected, nClients, mapVars, objVars, taskVars, rsid,
                   rclient, rstate, total_cost_usd, turn0, cost0>>

\* line 100: async with self._sessions_lock
LockSessions(r) ==
    /\ pc[r] = "want_sessions"
    /\ sessionsLock = Free
    /\ sessionsLock' = r
    /\ pc' = [pc EXCEPT ![r] = "in_sessions"]
    /\ UNCHANGED <<now, lifeVars, mgrVars, sessions, objVars, taskVars, rsid, rclient, rstate, rerr,
                   total_cost_usd, turn0, cost0>>

\* ResolveExpired without the `del`
ResolveExpiredKept(r) ==
    /\ pc' = [pc EXCEPT ![r] = "finished"]
    /\ rerr' = [rerr EXCEPT ![r] = SessionExpiredError(rsid[r])]
    /\ UNCHANGED <<sessions, objVars, rstate>>

\* lines 104-108: the record is expired: removed, SessionExpiredError
ResolveExpired(r) ==
    /\ sessions' = [sessions EXCEPT ![rsid[r]] = None]
    /\ pc' = [pc EXCEPT ![r] = "finished"]
    /\ rerr' = [rerr EXCEPT ![r] = SessionExpiredError(rsid[r])]
    /\ Reclaim(Unheld({sessions[rsid[r]]}))
    /\ UNCHANGED rstate

\* ResolveExisting without touch()
ResolveExistingUntouched(r) ==
    /\ rstate' = [rstate EXCEPT ![r] = sessions[rsid[r]]]
    /\ pc' = [pc EXCEPT ![r] = "returned"]
    /\ UNCHANGED <<sessions, objVars, rerr>>

\* lines 109-111: the record is reused
ResolveExisting(r) ==
    /\ last_accessed' = [last_accessed EXCEPT ![sessions[rsid[r]]] = now]
    /\ rstate' = [rstate EXCEPT ![r] = sessions[rsid[r]]]
    /\ pc' = [pc EXCEPT ![r] = "returned"]
    /\ UNCHANGED <<sessions, obj_session_id, lock, running_total_cost_usd,
                   dialogue_turn, rerr>>

\* lines 114-118: a new record under the id
ResolveNew(r) ==
    /\ obj_session_id' = [obj_session_id EXCEPT ![NewObj] = rsid[r]]
    /\ last_accessed' = [last_accessed EXCEPT ![NewObj] = now]
    /\ lock' = [lock EXCEPT ![NewObj] = Free]
    /\ running_total_cost_usd' = [running_total_cost_usd EXCEPT ![NewObj] = 0]
    /\ dialogue_turn' = [dialogue_turn EXCEPT ![NewObj] = 0]
    /\ sessions' = [sessions EXCEPT ![rsid[r]] = NewObj]
    /\ rstate' = [rstate EXCEPT ![r] = NewObj]
    /\ pc' = [pc EXCEPT ![r] = "returned"]
    /\ UNCHANGED rerr

\* Resolve without the lookup of line 102: a record is always constructed
ResolveNoLookup(r) ==
    /\ pc[r] = "in_sessions"
    /\ sessionsLock = r
    /\ ResolveNew(r)
    /\ sessionsLock' = Free
    /\ UNCHANGED <<now, lifeVars, mgrVars, taskVars, rsid, rclient, total_cost_usd, turn0, cost0>>

\* Resolve with the lock released by hand on the two returns only
ResolveLeaky(r) ==
    /\ pc[r] = "in_sessions"
    /\ sessionsLock = r
    /\ IF sessions[rsid[r]] # None
       THEN IF is_expired(sessions[rsid[r]])
            THEN ResolveExpired(r) /\ UNCHANGED sessionsLock
            ELSE ResolveExisting(r) /\ sessionsLock' = Free
       ELSE ResolveNew(r) /\ sessionsLock' = Free
    /\ UNCHANGED <<now, lifeVars, mgrVars, taskVars, rsid, rclient, total_cost_usd, turn0, cost0>>

\* lines 101-118: the body of `async with self._sessions_lock`, which has no
\* suspension point, and the release of the lock on leaving it
Resolve(r) ==
    /\ pc[r] = "in_sessions"
    /\ sessionsLock = r
    /\ IF sessions[rsid[r]] # None
       THEN IF is_expired(sessions[rsid[r]]) THEN ResolveExpired(r) ELSE ResolveExisting(r)
       ELSE ResolveNew(r)
    /\ sessionsLock' = Free
    /\ UNCHANGED <<now, lifeVars, mgrVars, taskVars, rsid, rclient, total_cost_usd, turn0, cost0>>

(***************************************************************************)
(* handle_chat: one turn                                                   *)
(***************************************************************************)
\* BeginTurn with one lock for all the records (a lock made once for the
\* class, not once per record by default_factory)
BeginTurnOneLock(r) ==
    /\ pc[r] = "returned"
    /\ \A o \in Objs : lock[o] = Free
    /\ dialogue_turn[rstate[r]] < MaxTurns
    /\ lock' = [lock EXCEPT ![rstate[r]] = r]
    /\ total_cost_usd' = [total_cost_usd EXCEPT ![r] = NoCost]
    /\ turn0' = [turn0 EXCEPT ![r] = dialogue_turn[rstate[r]]]
    /\ cost0' = [cost0 EXCEPT ![r] = running_total_cost_usd[rstate[r]]]
    /\ pc' = [pc EXCEPT ![r] = "query"]
    /\ UNCHANGED <<now, lifeVars, mgrVars, mapVars, obj_session_id, last_accessed,
                   running_total_cost_usd, dialogue_turn, taskVars, rsid, rclient,
                   rstate, rerr>>

\* line 96: async with state.lock; lines 99-101
BeginTurn(r) ==
    /\ pc[r] = "returned"
    /\ lock[rstate[r]] = Free
    /\ dialogue_turn[rstate[r]] < MaxTurns
    /\ lock' = [lock EXCEPT ![rstate[r]] = r]
    /\ total_cost_usd' = [total_cost_usd EXCEPT ![r] = NoCost]
    /\ turn0' = [turn0 EXCEPT ![r] = dialogue_turn[rstate[r]]]
    /\ cost0' = [cost0 EXCEPT ![r] = running_total_cost_usd[rstate[r]]]
    /\ pc' = [pc EXCEPT ![r] = "query"]
    /\ UNCHANGED <<now, lifeVars, mgrVars, mapVars, obj_session_id, last_accessed,
                   running_total_cost_usd, dialogue_turn, taskVars, rsid, rclient,
                   rstate, rerr>>

\* line 97: client.query returned
QueryOk(r) ==
    /\ pc[r] = "query"
    /\ rclient[r] \in connected
    /\ pc' = [pc EXCEPT ![r] = "receive"]
    /\ UNCHANGED <<now, lifeVars, mgrVars, mapVars, objVars, taskVars, rsid, rclient, rstate, rerr,
                   total_cost_usd, turn0, cost0>>

\* the turn raised inside `async with state.lock`: the lock is released and
\* lines 125-127 answer 422
RaiseInTurn(r) ==
    /\ lock' = [lock EXCEPT ![rstate[r]] = Free]
    /\ pc' = [pc EXCEPT ![r] = "finished"]
    /\ rerr' = [rerr EXCEPT ![r] = TurnFailure(rsid[r])]

\* line 97: client.query raised
QueryRaise(r) ==
    /\ pc[r] = "query"
    /\ RaiseInTurn(r)
    /\ UNCHANGED <<now, lifeVars, mgrVars, mapVars, obj_session_id, last_accessed,
                   running_total_cost_usd, dialogue_turn, taskVars, rsid, rclient,
                   rstate, total_cost_usd, turn0, cost0>>

\* ReceiveResult with lines 112 and 113 in the other order: the turn is
\* counted before the cost is added
ReceiveResultCountFirst(r, cost) ==
    /\ pc[r] = "receive"
    /\ total_cost_usd' = [total_cost_usd EXCEPT ![r] = cost]
    /\ dialogue_turn' = [dialogue_turn EXCEPT ![rstate[r]] = @ + 1]
    /\ IF cost = NoCost
       THEN /\ lock' = [lock EXCEPT ![rstate[r]] = Free]
            /\ pc' = [pc EXCEPT ![r] = "finished"]
            /\ rerr' = [rerr EXCEPT ![r] = TurnFailure(rsid[r])]
            /\ UNCHANGED running_total_cost_usd
       ELSE /\ running_total_cost_usd' =
                   [running_total_cost_usd EXCEPT ![rstate[r]] = @ + cost]
            /\ pc' = [pc EXCEPT ![r] = "after_result"]
            /\ UNCHANGED <<lock, rerr>>
    /\ UNCHANGED <<now, lifeVars, mgrVars, mapVars, obj_session_id, last_accessed, taskVars,
                   rsid, rclient, rstate, turn0, cost0>>

\* lines 109-113: the ResultMessage arrives, reporting `cost`; a ResultMessage
\* without a cost makes line 112 raise TypeError before anything is assigned
ReceiveResult(r, cost) ==
    /\ pc[r] = "receive"
    /\ total_cost_usd' = [total_cost_usd EXCEPT ![r] = cost]
    /\ IF cost = NoCost
       THEN /\ RaiseInTurn(r)
            /\ UNCHANGED <<running_total_cost_usd, dialogue_turn>>
       ELSE /\ running_total_cost_usd' =
                   [running_total_cost_usd EXCEPT ![rstate[r]] = @ + cost]
            /\ dialogue_turn' = [dialogue_turn EXCEPT ![rstate[r]] = @ + 1]
            /\ pc' = [pc EXCEPT ![r] = "after_result"]
            /\ UNCHANGED <<lock, rerr>>
    /\ UNCHANGED <<now, lifeVars, mgrVars, mapVars, obj_session_id, last_accessed, taskVars,
                   rsid, rclient, rstate, turn0, cost0>>

\* line 103: client.receive_response raised
ReceiveRaise(r) ==
    /\ pc[r] = "receive"
    /\ RaiseInTurn(r)
    /\ UNCHANGED <<now, lifeVars, mgrVars, mapVars, obj_session_id, last_accessed,
                   running_total_cost_usd, dialogue_turn, taskVars, rsid, rclient,
                   rstate, total_cost_usd, turn0, cost0>>

\* line 103: the response stream ended without a ResultMessage
ReceiveEnd(r) ==
    /\ pc[r] = "receive"
    /\ pc' = [pc EXCEPT ![r] = "after_result"]
    /\ UNCHANGED <<now, lifeVars, mgrVars, mapVars, objVars, taskVars, rsid, rclient, rstate, rerr,
                   total_cost_usd, turn0, cost0>>

\* lines 115-124: the `async with` is left, the lock released, and the
\* ChatResponse built; total_cost_usd: float refuses None (422 by line 127)
EndTurn(r) ==
    /\ pc[r] = "after_result"
    /\ lock' = [lock EXCEPT ![rstate[r]] = Free]
    /\ pc' = [pc EXCEPT ![r] = "finished"]
    /\ rerr' = [rerr EXCEPT ![r] = IF total_cost_usd[r] = NoCost
                                  THEN TurnFailure(rsid[r]) ELSE NoError]
    /\ UNCHANGED <<now, lifeVars, mgrVars, mapVars, obj_session_id, last_accessed,
                   running_total_cost_usd, dialogue_turn, taskVars, rsid, rclient,
                   rstate, total_cost_usd, turn0, cost0>>

\* CancelTurn that leaves the lock as it is
CancelTurnLockKept(r) ==
    /\ \/ pc[r] = "returned" /\ lock[rstate[r]] # Free
       \/ pc[r] \in {"query", "receive"}
    /\ pc' = [pc EXCEPT ![r] = "finished"]
    /\ rerr' = [rerr EXCEPT ![r] = CancelledError(rsid[r])]
    /\ UNCHANGED <<now, lifeVars, mgrVars, mapVars, objVars, taskVars, rsid, rclient,
                   rstate, total_cost_usd, turn0, cost0>>

\* the request's task is cancelled where handle_chat is suspended: waiting
\* for state.lock (line 96), which it then does not get, or holding it in
\* query (line 97) or receive_response (line 103), where the `async with`
\* releases it
CancelTurn(r) ==
    /\ \/ pc[r] = "returned" /\ lock[rstate[r]] # Free
       \/ pc[r] \in {"query", "receive"}
    /\ lock' = [lock EXCEPT ![rstate[r]] = IF @ = r THEN Free ELSE @]
    /\ pc' = [pc EXCEPT ![r] = "finished"]
    /\ rerr' = [rerr EXCEPT ![r] = CancelledError(rsid[r])]
    /\ UNCHANGED <<now, lifeVars, mgrVars, mapVars, obj_session_id, last_accessed,
                   running_total_cost_usd, dialogue_turn, taskVars, rsid, rclient,
                   rstate, total_cost_usd, turn0, cost0>>

\* the response or the error has been sent; the coroutine's locals are gone
Finish(r) ==
    /\ pc[r] = "finished"
    /\ pc' = [pc EXCEPT ![r] = "idle"]
    /\ rsid' = [rsid EXCEPT ![r] = "unset"]
    /\ rclient' = [rclient EXCEPT ![r] = None]
    /\ rstate' = [rstate EXCEPT ![r] = None]
    /\ rerr' = [rerr EXCEPT ![r] = NoError]
    /\ total_cost_usd' = [total_cost_usd EXCEPT ![r] = NoCost]
    /\ turn0' = [turn0 EXCEPT ![r] = 0]
    /\ cost0' = [cost0 EXCEPT ![r] = 0]
    /\ Reclaim({o \in Objs : /\ rstate[r] = o
                              /\ \A q \in Reqs \ {r} : rstate[q] # o
                              /\ \A id \in SessionIds : sessions[id] # o})
    /\ UNCHANGED <<now, lifeVars, mgrVars, mapVars, taskVars>>

(***************************************************************************)
(* The expiry scheduler                                                    *)
(***************************************************************************)
\* start_cleanup_task, lines 159-160
StartCleanupTask(t) ==
    /\ tpc[t] = "unstarted"
    /\ tpc' = [tpc EXCEPT ![t] = "sleeping"]
    /\ cleanup_task' = t
    /\ UNCHANGED <<now, lifeVars, mgrVars, mapVars, objVars, expired_ids, reqVars>>

\* cleanup_loop wakes (line 156) and cleanup_expired_sessions takes the lock
\* (line 139)
SweepLock(t) ==
    /\ tpc[t] = "sleeping"
    /\ t \notin cancelling
    /\ sessionsLock = Free
    /\ sessionsLock' = t
    /\ tpc' = [tpc EXCEPT ![t] = "scanning"]
    /\ UNCHANGED <<now, lifeVars, mgrVars, sessions, objVars, cleanup_task, expired_ids, reqVars>>

\* SweepScan run before the lock is taken: the list is made, and the lock
\* is not held while it waits to be used
SweepScanUnlocked(t) ==
    /\ tpc[t] = "scanning"
    /\ expired_ids' = [expired_ids EXCEPT ![t] =
           {sid \in SessionIds : sessions[sid] # None /\ is_expired(sessions[sid])}]
    /\ tpc' = [tpc EXCEPT ![t] = "deleting"]
    /\ sessionsLock' = Free
    /\ UNCHANGED <<now, lifeVars, mgrVars, sessions, objVars, cleanup_task, reqVars>>

\* SweepScan without the `if state.is_expired()`: every id is listed
SweepScanAll(t) ==
    /\ tpc[t] = "scanning"
    /\ expired_ids' = [expired_ids EXCEPT ![t] = {sid \in SessionIds : sessions[sid] # None}]
    /\ tpc' = [tpc EXCEPT ![t] = "deleting"]
    /\ UNCHANGED <<now, lifeVars, mgrVars, mapVars, objVars, cleanup_task, reqVars>>

\* cleanup_expired_sessions, lines 140-143: the ids of the expired records
SweepScan(t) ==
    /\ tpc[t] = "scanning"
    /\ expired_ids' = [expired_ids EXCEPT ![t] =
           {sid \in SessionIds : sessions[sid] # None /\ is_expired(sessions[sid])}]
    /\ tpc' = [tpc EXCEPT ![t] = "deleting"]
    /\ UNCHANGED <<now, lifeVars, mgrVars, mapVars, objVars, cleanup_task, reqVars>>

\* cleanup_expired_sessions, lines 145-150: each listed id is deleted, the
\* lock released, and cleanup_loop sleeps again; `del` of an id that is not
\* in the mapping raises KeyError, which ends the task
SweepDelete(t) ==
    /\ tpc[t] = "deleting"
    /\ IF \E sid \in expired_ids[t] : sessions[sid] = None
       THEN /\ tpc' = [tpc EXCEPT ![t] = "KeyError"]
            /\ UNCHANGED <<sessions, objVars>>
       ELSE /\ tpc' = [tpc EXCEPT ![t] = "sleeping"]
            /\ sessions' = [sid \in SessionIds |->
                               IF sid \in expired_ids[t] THEN None ELSE sessions[sid]]
            /\ Reclaim(Unheld({sessions[sid] : sid \in expired_ids[t]}))
    /\ expired_ids' = [expired_ids EXCEPT ![t] = {}]
    /\ sessionsLock' = Free
    /\ UNCHANGED <<now, lifeVars, mgrVars, cleanup_task, reqVars>>

\* the task's cancel() is delivered where cleanup_loop is suspended: in
\* asyncio.sleep (line 156) or waiting for _sessions_lock (line 139); the
\* CancelledError ends the task, which holds no lock there
TaskCancelled(t) ==
    /\ t \in cancelling
    /\ tpc[t] = "sleeping"
    /\ tpc' = [tpc EXCEPT ![t] = "cancelled"]
    /\ cancelling' = cancelling \ {t}
    /\ UNCHANGED <<now, mgrVars, mapVars, objVars, cleanup_task, expired_ids, reqVars,
                   spc, awaited, shut_down, lpc, listing>>

(***************************************************************************)
(* SessionManager.shutdown                                                 *)
(***************************************************************************)
\* the tasks that have ended
Ended(t) == tpc[t] \in {"cancelled", "KeyError"}

\* ShutdownBegin that cancels the task and does not await it
ShutdownBeginNoAwait ==
    /\ spc \in {"idle", "raised"}
    /\ IF cleanup_task # "none"
       THEN /\ cancelling' = IF Ended(cleanup_task) THEN cancelling
                                                    ELSE cancelling \cup {cleanup_task}
            /\ cleanup_task' = "none"
       ELSE UNCHANGED <<cancelling, cleanup_task>>
    /\ spc' = "want_client"
    /\ UNCHANGED <<now, mgrVars, mapVars, objVars, tpc, expired_ids, reqVars,
                   awaited, shut_down, lpc, listing>>

\* shutdown, lines 165-168: the task in _cleanup_task is cancelled (a no-op
\* on a task that has ended) and awaited; without a task, on to line 174;
\* shutdown is not running: it has not been called, has returned or raised
ShutdownBegin ==
    /\ spc \in {"idle", "raised"}
    /\ IF cleanup_task # "none"
       THEN /\ cancelling' = IF Ended(cleanup_task) THEN cancelling
                                                    ELSE cancelling \cup {cleanup_task}
            /\ awaited' = cleanup_task
            /\ spc' = "await_task"
       ELSE /\ spc' = "want_client"
            /\ UNCHANGED <<cancelling, awaited>>
    /\ UNCHANGED <<now, mgrVars, mapVars, objVars, taskVars, reqVars,
                   shut_down, lpc, listing>>

\* lines 168-171: the awaited task has ended; its CancelledError is passed
\* over and _cleanup_task reset, any other exception of the task (KeyError)
\* leaves shutdown
ShutdownAwaited ==
    /\ spc = "await_task"
    /\ Ended(awaited)
    /\ IF tpc[awaited] = "cancelled"
       THEN /\ cleanup_task' = "none"
            /\ spc' = "want_client"
       ELSE /\ spc' = "raised"
            /\ UNCHANGED cleanup_task
    /\ awaited' = "none"
    /\ UNCHANGED <<now, mgrVars, mapVars, objVars, tpc, expired_ids, reqVars,
                   cancelling, shut_down, lpc, listing>>

\* lines 174-177: _client_lock is taken; with a client, disconnect() is
\* awaited under the lock, without one the block is left at once
ShutdownLockClient ==
    /\ spc = "want_client"
    /\ clientLock = Free
    /\ IF client # None
       THEN /\ clientLock' = "shutdown"
            /\ spc' = "disconnecting"
       ELSE /\ spc' = "want_sessions"
            /\ UNCHANGED clientLock
    /\ UNCHANGED <<now, client, connected, nClients, mapVars, objVars, taskVars, reqVars,
                   awaited, cancelling, shut_down, lpc, listing>>

\* lines 177 and 180: disconnect() returned
DisconnectOk ==
    /\ spc = "disconnecting"
    /\ connected' = connected \ {client}
    /\ client' = None
    /\ clientLock' = Free
    /\ spc' = "want_sessions"
    /\ UNCHANGED <<now, nClients, mapVars, objVars, taskVars, reqVars,
                   awaited, cancelling, shut_down, lpc, listing>>

\* DisconnectRaise without the try/except: the exception leaves shutdown
DisconnectRaiseUncaught(stays) ==
    /\ spc = "disconnecting"
    /\ connected' = IF stays THEN connected ELSE connected \ {client}
    /\ clientLock' = Free
    /\ spc' = "raised"
    /\ UNCHANGED <<now, client, nClients, mapVars, objVars, taskVars, reqVars,
                   awaited, cancelling, shut_down, lpc, listing>>

\* lines 177-180: disconnect() raised, which is logged; the connection is
\* closed or not (stays), and _client is reset all the same
DisconnectRaise(stays) ==
    /\ spc = "disconnecting"
    /\ connected' = IF stays THEN connected ELSE connected \ {client}
    /\ client' = None
    /\ clientLock' = Free
    /\ spc' = "want_sessions"
    /\ UNCHANGED <<now, nClients, mapVars, objVars, taskVars, reqVars,
                   awaited, cancelling, shut_down, lpc, listing>>

\* line 183: async with self._sessions_lock
ShutdownLockSessions ==
    /\ spc = "want_sessions"
    /\ sessionsLock = Free
    /\ sessionsLock' = "shutdown"
    /\ spc' = "clearing"
    /\ UNCHANGED <<now, mgrVars, sessions, objVars, taskVars, reqVars,
                   awaited, cancelling, shut_down, lpc, listing>>

\* lines 184-186: the mapping is cleared, the lock released, shutdown returns
ShutdownClear ==
    /\ spc = "clearing"
    /\ sessions' = [id \in SessionIds |-> None]
    /\ Reclaim(Unheld(Mapped))
    /\ sessionsLock' = Free
    /\ spc' = "idle"
    /\ shut_down' = TRUE
    /\ UNCHANGED <<now, mgrVars, taskVars, reqVars, awaited, cancelling, lpc, listing>>

(***************************************************************************)
(* SessionManager.list_sessions                                            *)
(***************************************************************************)
\* line 127: async with self._sessions_lock
ListLock ==
    /\ lpc = "idle"
    /\ sessionsLock = Free
    /\ sessionsLock' = "lister"
    /\ lpc' = "listing"
    /\ UNCHANGED <<now, mgrVars, sessions, objVars, taskVars, reqVars,
                   spc, awaited, cancelling, shut_down, listing>>

\* the dict list_sessions makes of a record, lines 129-133
Entry(o) ==
    [session_id |-> obj_session_id[o],
     last_accessed |-> last_accessed[o],
     is_expired |-> is_expired(o)]

\* ListSnapshot that leaves the expired records out
ListSnapshotLive ==
    /\ lpc = "listing"
    /\ listing' = {Entry(o) : o \in {m \in Mapped : ~is_expired(m)}}
    /\ sessionsLock' = Free
    /\ lpc' = "returned"
    /\ UNCHANGED <<now, mgrVars, sessions, objVars, taskVars, reqVars,
                   spc, awaited, cancelling, shut_down>>

\* lines 128-135: one dict per value of the mapping; the lock is released
ListSnapshot ==
    /\ lpc = "listing"
    /\ listing' = {Entry(o) : o \in Mapped}
    /\ sessionsLock' = Free
    /\ lpc' = "returned"
    /\ UNCHANGED <<now, mgrVars, sessions, objVars, taskVars, reqVars,
                   spc, awaited, cancelling, shut_down>>

\* the caller has used the list
ListDone ==
    /\ lpc = "returned"
    /\ listing' = {}
    /\ lpc' = "idle"
    /\ UNCHANGED <<now, mgrVars, mapVars, objVars, taskVars, reqVars,
                   spc, awaited, cancelling, shut_down>>

\* what the coroutines do once they have been started
Steps ==
    \/ \E r \in Reqs : EnsureClient(r)
    \/ \E r \in Reqs : ConnectOk(r)
    \/ \E r \in Reqs : ConnectRaise(r)
    \/ \E r \in Reqs : LockSessions(r)
    \/ \E r \in Reqs : Resolve(r)
    \/ \E r \in Reqs : BeginTurn(r)
    \/ \E r \in Reqs : QueryOk(r)
    \/ \E r \in Reqs : QueryRaise(r)
    \/ \E r \in Reqs, cost \in Costs \cup {NoCost} : ReceiveResult(r, cost)
    \/ \E r \in Reqs : ReceiveRaise(r)
    \/ \E r \in Reqs : ReceiveEnd(r)
    \/ \E r \in Reqs : EndTurn(r)
    \/ \E r \in Reqs : Finish(r)
    \/ \E t \in Tasks : SweepLock(t)
    \/ \E t \in Tasks : SweepScan(t)
    \/ \E t \in Tasks : SweepDelete(t)

(***************************************************************************)
(* Spec: every request names the same session (or a malformed id), so that *)
(* the requests contend for one record; one cleanup task.                  *)
(***************************************************************************)
ContendedIds == {"canon", "word"}

Next ==
    \/ Tick
    \/ \E r \in Reqs, id \in ContendedIds : Call(r, id)
    \/ StartCleanupTask("t1")
    \/ Steps

Spec == Init /\ [][Next]_vars

(***************************************************************************)
(* SpecSeq: one request at a time, over every session id; one cleanup      *)
(* task.                                                                   *)
(***************************************************************************)
NextSeq ==
    \/ Tick
    \/ \E id \in SessionIds : Call("r1", id)
    \/ StartCleanupTask("t1")
    \/ Steps

SpecSeq == Init /\ [][NextSeq]_vars

(***************************************************************************)
(* SpecSweeps: one request at a time on one session, and two cleanup       *)
(* tasks, as start_cleanup_task called twice leaves them.                  *)
(***************************************************************************)
NextSweeps ==
    \/ Tick
    \/ \E id \in ContendedIds : Call("r1", id)
    \/ \E t \in Tasks : StartCleanupTask(t)
    \/ Steps

SpecSweeps == Init /\ [][NextSweeps]_vars

\* what the requests do once they have arrived
ReqSteps ==
    \/ \E r \in Reqs : EnsureClient(r)
    \/ \E r \in Reqs : ConnectOk(r)
    \/ \E r \in Reqs : ConnectRaise(r)
    \/ \E r \in Reqs : LockSessions(r)
    \/ \E r \in Reqs : Resolve(r)
    \/ \E r \in Reqs : BeginTurn(r)
    \/ \E r \in Reqs : QueryOk(r)
    \/ \E r \in Reqs : QueryRaise(r)
    \/ \E r \in Reqs, cost \in Costs \cup {NoCost} : ReceiveResult(r, cost)
    \/ \E r \in Reqs : ReceiveRaise(r)
    \/ \E r \in Reqs : ReceiveEnd(r)
    \/ \E r \in Reqs : EndTurn(r)
    \/ \E r \in Reqs : Finish(r)

(***************************************************************************)
(* SpecPair: two requests, each on a session of its own, which can be      *)
(* cancelled; no cleanup task has been started.                            *)
(***************************************************************************)
NextPair ==
    \/ Tick
    \/ Call("r1", "canon")
    \/ Call("r2", "urn")
    \/ ReqSteps
    \/ \E r \in Reqs : CancelTurn(r)

SpecPair == Init /\ [][NextPair]_vars

(***************************************************************************)
(* SpecList: one request at a time on two sessions, and a caller of        *)
(* list_sessions; no cleanup task has been started.                        *)
(***************************************************************************)
NextList ==
    \/ Tick
    \/ \E id \in ValidIds : Call("r1", id)
    \/ ReqSteps
    \/ ListLock
    \/ ListSnapshot
    \/ ListDone

SpecList == Init /\ [][NextList]_vars

(***************************************************************************)
(* SpecFair: two requests on one session, each posted once and open to     *)
(* cancellation; one cleanup task. Every turn terminates: client.query and *)
(* client.receive_response return or raise, and asyncio.Lock wakes its     *)
(* waiters first come, first served, so a request that finds the lock free *)
(* again and again gets it.                                                *)
(***************************************************************************)
\* client.query and client.receive_response of request r come to an end
TurnStep(r) ==
    \/ QueryOk(r)
    \/ QueryRaise(r)
    \/ \E cost \in Costs \cup {NoCost} : ReceiveResult(r, cost)
    \/ ReceiveRaise(r)
    \/ ReceiveEnd(r)
    \/ EndTurn(r)

NextFair ==
    \/ Tick
    \/ \E r \in Reqs : Call(r, "canon")
    \/ StartCleanupTask("t1")
    \/ \E r \in Reqs : EnsureClient(r)
    \/ \E r \in Reqs : ConnectOk(r)
    \/ \E r \in Reqs : ConnectRaise(r)
    \/ \E r \in Reqs : LockSessions(r)
    \/ \E r \in Reqs : Resolve(r)
    \/ \E r \in Reqs : BeginTurn(r)
    \/ \E r \in Reqs : TurnStep(r)
    \/ \E r \in Reqs : CancelTurn(r)
    \/ \E t \in Tasks : SweepLock(t)
    \/ \E t \in Tasks : SweepScan(t)
    \/ \E t \in Tasks : SweepDelete(t)

SpecFair ==
    /\ Init
    /\ [][NextFair]_vars
    /\ \A r \in Reqs : WF_vars(TurnStep(r))
    /\ \A r \in Reqs : SF_vars(BeginTurn(r))

(***************************************************************************)
(* SpecLife: the manager used as a process-wide singleton that is started, *)
(* shut down and used again: shutdown() is called when no resolution is in *)
(* flight (turns may be), and nothing is called on the manager while       *)
(* shutdown() runs. One cleanup task.                                      *)
(***************************************************************************)
\* shutdown() is not running
NotShuttingDown == spc \in {"idle", "raised"}

\* no request is inside get_or_create_session
NoResolution ==
    \A r \in Reqs : pc[r] \notin {"ensure_client", "connecting", "want_sessions", "in_sessions"}

\* the steps of shutdown() and of the task it cancels
ShutdownSteps ==
    \/ ShutdownAwaited
    \/ ShutdownLockClient
    \/ DisconnectOk
    \/ \E stays \in BOOLEAN : DisconnectRaise(stays)
    \/ ShutdownLockSessions
    \/ ShutdownClear
    \/ \E t \in Tasks : TaskCancelled(t)

NextLife ==
    \/ Tick
    \/ \E id \in ContendedIds : NotShuttingDown /\ Call("r1", id)
    \/ NotShuttingDown /\ StartCleanupTask("t1")
    \/ NoResolution /\ ShutdownBegin
    \/ Steps
    \/ ShutdownSteps

SpecLife == Init /\ [][NextLife]_vars

(***************************************************************************)
(* SpecLeak: as SpecLife, with start_cleanup_task called up to twice.      *)
(***************************************************************************)
NextLeak ==
    \/ Tick
    \/ \E id \in ContendedIds : NotShuttingDown /\ Call("r1", id)
    \/ \E t \in Tasks : NotShuttingDown /\ StartCleanupTask(t)
    \/ NoResolution /\ ShutdownBegin
    \/ Steps
    \/ ShutdownSteps

SpecLeak == Init /\ [][NextLeak]_vars

(***************************************************************************)
(* SpecRace: shutdown() called at any moment, with resolutions in flight   *)
(* and requests arriving while it runs. One cleanup task.                  *)
(***************************************************************************)
NextRace ==
    \/ Tick
    \/ \E id \in ContendedIds : Call("r1", id)
    \/ StartCleanupTask("t1")
    \/ ShutdownBegin
    \/ Steps
    \/ ShutdownSteps

SpecRace == Init /\ [][NextRace]_vars

(***************************************************************************)
(* Properties                                                              *)
(***************************************************************************)
\* the request is inside its agent turn: it holds state.lock, between
\* client.query and the end of client.receive_response
InTurn(r) == pc[r] \in {"query", "receive", "after_result"}

\* C1: for any session id, at most one request is inside its agent turn.
C1_OneTurnPerSessionId ==
    \A r1, r2 \in Reqs :
        (r1 # r2 /\ InTurn(r1) /\ InTurn(r2)) => rsid[r1] # rsid[r2]

\* C2: the SessionState of every turn in progress is still the record the
\* mapping stores under its id: no record is removed while its lock is held.
C2_NoRemovalDuringTurn ==
    \A r \in Reqs : InTurn(r) => sessions[rsid[r]] = rstate[r]

\* the turn of request r ends in this step
TurnEnds(r) == InTurn(r) /\ pc'[r] = "finished"

\* C3: a turn that ends successfully leaves the record's turn counter exactly
\* 1 higher and its running cost higher by exactly the reported cost than the
\* turn found them; a turn that fails leaves both as it found them; and the
\* two fields of a record change only in a step of the request that holds the
\* record's lock before and after the step.
C3_TurnBookkeeping ==
    [][/\ \A r \in Reqs :
            TurnEnds(r) =>
                IF rerr'[r] = NoError
                THEN /\ dialogue_turn'[rstate[r]] = turn0[r] + 1
                     /\ total_cost_usd'[r] \in Costs
                     /\ running_total_cost_usd'[rstate[r]] = cost0[r] + total_cost_usd'[r]
                ELSE /\ dialogue_turn'[rstate[r]] = turn0[r]
                     /\ running_total_cost_usd'[rstate[r]] = cost0[r]
       /\ \A o \in Objs :
            (/\ Referenced(o) /\ Referenced(o)'
             /\ \/ dialogue_turn'[o] # dialogue_turn[o]
                \/ running_total_cost_usd'[o] # running_total_cost_usd[o])
            => \E r \in Reqs : /\ lock[o] = r /\ lock'[o] = r
                               /\ rstate[r] = o
                               /\ pc[r] = "receive" /\ pc'[r] = "after_result"
      ]_vars

\* a second turn on a record has ended successfully, and a turn has failed
C3_Witness ==
    \E r \in Reqs :
        /\ pc[r] = "finished" /\ rerr[r] = NoError
        /\ turn0[r] = 1 /\ total_cost_usd[r] = 2
        /\ dialogue_turn[rstate[r]] = 2

\* request r leaves the body of `async with self._sessions_lock` in this step
Resolves(r) == pc[r] = "in_sessions" /\ pc'[r] # "in_sessions"

\* the record constructed in this step: nothing referred to it before, and it
\* is as SessionState(session_id=...) makes it
FreshRecord(o, id) ==
    /\ o # None
    /\ ~Referenced(o)
    /\ obj_session_id'[o] = id
    /\ last_accessed'[o] = now
    /\ lock'[o] = Free
    /\ dialogue_turn'[o] = 0
    /\ running_total_cost_usd'[o] = 0

\* C4: an id in the mapping is never bound to another record, only removed;
\* resolving an id that is not in the mapping constructs one record and
\* stores it under that id and no other; and every resolution that returns,
\* returns the record the mapping holds under its id, so that calls racing on
\* one unknown id all get the record the first of them made.
C4_OneRecordPerId ==
    [][/\ \A id \in SessionIds :
            sessions[id] # None => sessions'[id] \in {sessions[id], None}
       /\ \A r \in Reqs :
            (Resolves(r) /\ pc'[r] = "returned") =>
                /\ rstate'[r] # None
                /\ rstate'[r] = sessions'[rsid[r]]
                /\ obj_session_id'[rstate'[r]] = rsid[r]
                /\ \A id \in SessionIds \ {rsid[r]} : sessions'[id] = sessions[id]
                /\ sessions[rsid[r]] = None => FreshRecord(rstate'[r], rsid[r])
                /\ sessions[rsid[r]] # None => rstate'[r] = sessions[rsid[r]]
      ]_vars

\* two calls for one id are in flight together and hold the same record
C4_Witness ==
    /\ pc["r1"] = "returned" /\ pc["r2"] = "returned"
    /\ rsid["r1"] = "canon" /\ rsid["r2"] = "canon"
    /\ rstate["r1"] # None /\ rstate["r1"] = rstate["r2"]
    /\ dialogue_turn[rstate["r1"]] = 0

\* texts that are no GUID: too short, no hexadecimal digits, empty
MalformedIds == {"short", "word", "nonhex", "empty"}

\* C5: a call with a malformed id ends at once with InvalidSessionIdError
\* carrying that id, and leaves the mapping, every record, the client and the
\* two locks of the manager as they were.
C5_MalformedIdChangesNothing ==
    [][\A r \in Reqs :
          (pc[r] = "idle" /\ pc'[r] # "idle" /\ rsid'[r] \in MalformedIds) =>
              /\ pc'[r] = "finished"
              /\ rerr'[r] = InvalidSessionIdError(rsid'[r])
              /\ rstate'[r] = None /\ rclient'[r] = None
              /\ UNCHANGED <<mgrVars, mapVars, objVars>>
      ]_vars

\* a malformed id was refused while a record was in the mapping
C5_Witness ==
    \E r \in Reqs :
        /\ pc[r] = "finished"
        /\ rerr[r] = InvalidSessionIdError("nonhex")
        /\ sessions["canon"] # None
        /\ client # None

\* C6: a resolution that finds its id in the mapping with now - last_accessed
\* greater than the timeout removes the record and raises SessionExpiredError
\* naming the id, returning no record; any other resolution returns a record
\* and raises nothing.
C6_ExpiryOnResolution ==
    [][\A r \in Reqs :
          Resolves(r) =>
              IF /\ sessions[rsid[r]] # None
                 /\ now - last_accessed[sessions[rsid[r]]] > SESSION_TIMEOUT_MINUTES
              THEN /\ sessions'[rsid[r]] = None
                   /\ pc'[r] = "finished"
                   /\ rerr'[r] = SessionExpiredError(rsid[r])
                   /\ rstate'[r] = None
              ELSE /\ pc'[r] = "returned"
                   /\ rerr'[r] = NoError
      ]_vars

\* a resolution has raised SessionExpiredError
C6_Witness ==
    \E r \in Reqs :
        /\ pc[r] = "finished"
        /\ rerr[r] = SessionExpiredError("canon")
        /\ sessions["canon"] = None

\* C7: when SessionExpiredError is raised for an id, the id is out of the
\* mapping; an id that is out of the mapping comes back only with a record
\* constructed in that step (lock free, last_accessed = now, counters 0);
\* and a record that was dropped from the mapping while a request still
\* refers to it never enters the mapping again.
C7_NoResurrection ==
    [][/\ \A r \in Reqs :
            (rerr'[r].kind = "SessionExpiredError" /\ rerr[r].kind # "SessionExpiredError")
                => sessions'[rsid'[r]] = None
       /\ \A id \in SessionIds :
            (sessions[id] = None /\ sessions'[id] # None)
                => /\ FreshRecord(sessions'[id], id)
                   /\ \E r \in Reqs : Resolves(r) /\ rsid[r] = id /\ rstate'[r] = sessions'[id]
       /\ \A o \in Objs :
            (Referenced(o) /\ o \notin Mapped) => o \notin Mapped'
      ]_vars

\* after SessionExpiredError for the id, a resolution of it has returned a
\* new record
C7_Witness ==
    \E r, q \in Reqs :
        /\ pc[r] = "finished" /\ rerr[r] = SessionExpiredError("canon")
        /\ pc[q] = "returned" /\ rsid[q] = "canon"
        /\ sessions["canon"] = rstate[q]
        /\ last_accessed[rstate[q]] = now
        /\ dialogue_turn[rstate[q]] = 0

\* C8: a resolution that finds its id in the mapping, not expired, sets that
\* record's last_accessed to now and returns that record and the manager's
\* client; the mapping, the record's other fields and every other record
\* stay as they were.
C8_ReuseTouchesOnly ==
    [][\A r \in Reqs :
          (/\ Resolves(r)
           /\ sessions[rsid[r]] # None
           /\ now - last_accessed[sessions[rsid[r]]] <= SESSION_TIMEOUT_MINUTES)
          => /\ pc'[r] = "returned"
             /\ rstate'[r] = sessions[rsid[r]]
             /\ rclient'[r] = client /\ client # None
             /\ last_accessed' = [last_accessed EXCEPT ![sessions[rsid[r]]] = now]
             /\ UNCHANGED <<sessions, obj_session_id, lock, running_total_cost_usd,
                            dialogue_turn, client, connected>>
      ]_vars

\* a record that has counted a turn was resolved again at a later time, with
\* another record in the mapping
C8_Witness ==
    /\ pc["r1"] = "returned"
    /\ rstate["r1"] = sessions["canon"]
    /\ dialogue_turn[rstate["r1"]] = 1
    /\ last_accessed[rstate["r1"]] = now /\ now > 0
    /\ sessions["urn"] # None
    /\ last_accessed[sessions["urn"]] < now

\* who holds _sessions_lock is inside an `async with self._sessions_lock`,
\* holds no record's lock and neither runs nor awaits a turn
SessionsLockScoped ==
    /\ \A r \in Reqs :
          sessionsLock = r =>
              /\ pc[r] = "in_sessions"
              /\ \A o \in Objs : lock[o] # r
    /\ \A t \in Tasks : sessionsLock = t => tpc[t] \in {"scanning", "deleting"}
    /\ \A r \in Reqs :
          (pc[r] = "finished" /\ rerr[r].kind \in {"InvalidSessionIdError", "SessionExpiredError"})
              => /\ rstate[r] = None
                 /\ \A o \in Objs : lock[o] # r

\* C9: the mapping changes only in a step of the coroutine that holds
\* _sessions_lock; the lock is held only inside the `async with` blocks, so
\* not after get_or_create_session returned or raised, not in a turn and not
\* together with a record's lock; a request that ended with a structural
\* error has taken no record's lock.
C9_TwoTierLocking ==
    [][/\ sessions' # sessions =>
            /\ sessionsLock # Free
            /\ \/ \E r \in Reqs : sessionsLock = r /\ Resolves(r)
               \/ \E t \in Tasks : sessionsLock = t /\ tpc[t] = "deleting"
       /\ SessionsLockScoped
       /\ SessionsLockScoped'
      ]_vars

\* a request left get_or_create_session with SessionExpiredError, and the
\* other request has taken _sessions_lock since
C9_Witness ==
    \E r, q \in Reqs :
        /\ pc[r] = "finished" /\ rerr[r].kind = "SessionExpiredError"
        /\ sessionsLock = q

\* no sweep has met an id it listed but that is gone from the mapping
NoKeyError ==
    \A t \in Tasks :
        /\ tpc[t] # "KeyError"
        /\ tpc[t] = "deleting" => \A sid \in expired_ids[t] : sessions[sid] # None

\* request r removes id in this step, raising SessionExpiredError
RemovedByResolution(r, id) ==
    /\ Resolves(r) /\ rsid[r] = id
    /\ pc'[r] = "finished" /\ rerr'[r] = SessionExpiredError(id)

\* task t removes id in this step
RemovedBySweep(t, id) ==
    /\ tpc[t] = "deleting" /\ id \in expired_ids[t]
    /\ tpc'[t] = "sleeping"

\* C10: with resolutions and sweeps racing, every record that leaves the
\* mapping is expired and is removed by one resolution or by one sweep, not
\* both; a sweep finds every id it listed still in the mapping (no KeyError);
\* and a resolution that finds its id expired removes it and raises
\* SessionExpiredError, while one that finds it gone constructs a new record
\* and raises nothing.
C10_RacingRemovals ==
    [][/\ NoKeyError /\ NoKeyError'
       /\ \A id \in SessionIds :
            (sessions[id] # None /\ sessions'[id] = None) =>
                /\ is_expired(sessions[id])
                /\ Cardinality({r \in Reqs : RemovedByResolution(r, id)})
                     + Cardinality({t \in Tasks : RemovedBySweep(t, id)}) = 1
       /\ \A r \in Reqs :
            Resolves(r) =>
                /\ (sessions[rsid[r]] # None /\ is_expired(sessions[rsid[r]]))
                      => RemovedByResolution(r, rsid[r]) /\ sessions'[rsid[r]] = None
                /\ sessions[rsid[r]] = None
                      => /\ pc'[r] = "returned" /\ rerr'[r] = NoError
                         /\ FreshRecord(rstate'[r], rsid[r])
                         /\ sessions'[rsid[r]] = rstate'[r]
      ]_vars

\* a sweep is about to delete an expired record while a resolution of that
\* id waits for the lock and the other sweep is due
C10_Witness ==
    /\ tpc["t1"] = "deleting" /\ "canon" \in expired_ids["t1"]
    /\ tpc["t2"] = "sleeping"
    /\ pc["r1"] = "want_sessions" /\ rsid["r1"] = "canon"

\* the request is between client.query and the end of
\* client.receive_response
OnConnection(r) == pc[r] \in {"query", "receive"}

\* C11: at most one request at a time, across all the sessions, is between
\* client.query and the end of client.receive_response on one client.
C11_OneTurnPerConnection ==
    \A r1, r2 \in Reqs :
        (r1 # r2 /\ OnConnection(r1) /\ OnConnection(r2)) => rclient[r1] # rclient[r2]

\* C12: a request that waits for a record's lock waits for the lock of the
\* record of its own session id, held by a request for that same id; and
\* with no turn in progress for its session id it can take the lock at once,
\* whatever turns are in progress for other sessions.
C12_Isolation ==
    \A r \in Reqs :
        pc[r] = "returned" =>
            /\ obj_session_id[rstate[r]] = rsid[r]
            /\ lock[rstate[r]] # Free => rsid[lock[rstate[r]]] = rsid[r]
            /\ (/\ \A q \in Reqs \ {r} : InTurn(q) => rsid[q] # rsid[r]
                /\ dialogue_turn[rstate[r]] < MaxTurns)
               => ENABLED BeginTurn(r)

\* turns for two different session ids are in progress together
C12_Witness ==
    /\ InTurn("r1") /\ InTurn("r2")
    /\ rsid["r1"] # rsid["r2"]
    /\ rstate["r1"] # rstate["r2"]
    /\ lock[rstate["r1"]] = "r1" /\ lock[rstate["r2"]] = "r2"

\* request r leaves handle_chat's `try` of line 93 in this step, from waiting
\* for the lock or from inside the turn
LeavesTurn(r) ==
    /\ pc[r] \in {"returned", "query", "receive", "after_result"}
    /\ pc'[r] = "finished"

\* C13: a record's lock is held only by a request inside its turn on that
\* record; whichever way a request leaves (return, exception of the client,
\* cancellation while waiting or holding) it holds no lock afterwards, the
\* lock it held is free, the mapping is as it was, and if the turn failed
\* the record's counters are as the turn found them; and every request
\* waiting for the lock gets it or is cancelled.
C13_ScopedTurnLock ==
    /\ [](\A o \in Objs, r \in Reqs : lock[o] = r => InTurn(r) /\ rstate[r] = o)
    /\ [][\A r \in Reqs :
            LeavesTurn(r) =>
                /\ \A o \in Objs : lock'[o] # r
                /\ lock[rstate[r]] = r => lock'[rstate[r]] = Free
                /\ sessions' = sessions
                /\ (InTurn(r) /\ rerr'[r] # NoError) =>
                       /\ dialogue_turn'[rstate[r]] = turn0[r]
                       /\ running_total_cost_usd'[rstate[r]] = cost0[r]
         ]_vars
    /\ \A r \in Reqs :
          (pc[r] = "returned") ~>
              (pc[r] = "query" \/ rerr[r] = CancelledError(rsid[r]))

\* a turn failed on an exception of the client, the record is still in the
\* mapping, and the request that waited for the lock has it
C13_Witness ==
    \E r, q \in Reqs :
        /\ pc[r] = "finished" /\ rerr[r] = TurnFailure("canon")
        /\ turn0[r] = 0 /\ total_cost_usd[r] = NoCost
        /\ pc[q] = "query" /\ rstate[q] = rstate[r]
        /\ sessions["canon"] = rstate[q]
        /\ lock[rstate[q]] = q

\* shutdown() returns in this step
ShutdownReturns == spc = "clearing" /\ spc' = "idle"

\* the manager as shutdown() is to leave it: no cleanup task, no client, an
\* empty mapping
IsShutDown ==
    /\ cleanup_task = "none"
    /\ client = None
    /\ \A id \in SessionIds : sessions[id] = None

\* C14: shutdown() raises nothing; when it returns the manager has no cleanup
\* task, no client and an empty mapping, and shutdown holds neither lock of
\* the manager; the client is dropped once disconnect() was awaited, whether
\* it returned or raised; and a shutdown() of a manager that is already as
\* shutdown leaves it (called again, or never started) changes nothing of it.
C14_ShutdownIdempotent ==
    /\ [](spc # "raised")
    /\ [][/\ ShutdownReturns =>
                /\ IsShutDown'
                /\ clientLock' # "shutdown" /\ sessionsLock' # "shutdown"
          /\ (spc = "disconnecting" /\ spc' # "disconnecting") =>
                /\ spc' = "want_sessions"
                /\ client' = None
                /\ clientLock' = Free
          /\ (IsShutDown /\ ~NotShuttingDown) =>
                /\ IsShutDown'
                /\ UNCHANGED <<connected, nClients, tpc>>
         ]_vars

\* a second shutdown() is about to return, on a manager that was started,
\* used and shut down before
C14_Witness ==
    /\ shut_down
    /\ spc = "clearing"
    /\ IsShutDown
    /\ nClients = 1
    /\ tpc["t1"] = "cancelled"

\* shutdown() has taken _client_lock for the disconnect, or is past it
DisconnectBegun == spc \in {"disconnecting", "want_sessions", "clearing"}

\* cleanup_loop of task t is between two sleeps, or sleeping
Live(t) == tpc[t] \in {"sleeping", "scanning", "deleting"}

\* task t takes a step of cleanup_expired_sessions
SweepStep(t) == Live(t) /\ tpc'[t] # tpc[t] /\ tpc'[t] # "cancelled"

\* C15: shutdown() reaches the disconnect only with the cleanup task ended
\* and _cleanup_task reset; no task takes a step of
\* cleanup_expired_sessions once the disconnect has begun; and the task that
\* is cancelled does not hold _sessions_lock, which is held by a task only
\* inside cleanup_expired_sessions.
C15_ShutdownOrdering ==
    /\ []((spc = "want_client" \/ DisconnectBegun) =>
              /\ cleanup_task = "none"
              /\ \A t \in Tasks : ~Live(t))
    /\ [](\A t \in Tasks : sessionsLock = t => tpc[t] \in {"scanning", "deleting"})
    /\ [][\A t \in Tasks :
            /\ SweepStep(t) => ~DisconnectBegun
            /\ (tpc'[t] = "cancelled" /\ tpc[t] # "cancelled") =>
                   /\ spc = "await_task" /\ awaited = t
                   /\ sessionsLock # t /\ sessionsLock' # t
         ]_vars

\* the disconnect is under way with the task cancelled, and an expired
\* record is in the mapping for a sweep to find
C15_Witness ==
    /\ spc = "disconnecting"
    /\ tpc["t1"] = "cancelled"
    /\ sessions["canon"] # None
    /\ is_expired(sessions["canon"])

\* C16: shutdown() does not disconnect the client and does not clear the
\* mapping while a request holds a record's lock inside its turn.
C16_ShutdownDrainsTurns ==
    [][((spc = "disconnecting" /\ spc' # "disconnecting") \/ ShutdownReturns)
          => \A r \in Reqs : ~InTurn(r)
      ]_vars

\* C17: once shutdown() has returned, a resolution ends with an error, no
\* record enters the mapping and no client is constructed or connected.
C17_ResolutionAfterShutdownFails ==
    [][shut_down =>
          /\ \A r \in Reqs : Resolves(r) => (pc'[r] = "finished" /\ rerr'[r] # NoError)
          /\ \A id \in SessionIds : sessions'[id] = None
          /\ nClients' = nClients
          /\ connected' \subseteq connected
      ]_vars

\* C18: when shutdown() returns, no cleanup_loop that start_cleanup_task
\* created is still scheduled.
C18_NoLeakedCleanupTask ==
    [][ShutdownReturns => \A t \in Tasks : ~Live(t)']_vars

\* the ids in the mapping
MappedIds == {id \in SessionIds : sessions[id] # None}

\* list_sessions returns in this step
ListReturns == lpc = "listing" /\ lpc' = "returned"

\* C19: list_sessions returns, for every id in the mapping and for nothing
\* else, one entry with the record's session_id, its last_accessed and
\* whether now - last_accessed exceeds the timeout, as they are while it
\* holds _sessions_lock; its steps leave the mapping, every record and every
\* record's lock as they were; and once it has _sessions_lock it returns
\* whatever turns are in progress.
C19_ListSnapshot ==
    /\ [](lpc = "listing" => sessionsLock = "lister" /\ ENABLED ListSnapshot)
    /\ [][/\ ListReturns =>
                /\ Cardinality(listing') = Cardinality(MappedIds)
                /\ \A id \in MappedIds :
                      \E e \in listing' :
                          /\ e.session_id = id
                          /\ e.last_accessed = last_accessed[sessions[id]]
                          /\ e.is_expired =
                                (now - last_accessed[sessions[id]] > SESSION_TIMEOUT_MINUTES)
                /\ sessionsLock' = Free
          /\ lpc' # lpc => UNCHANGED <<sessions, objVars, mgrVars>>
          /\ sessionsLock = "lister" => UNCHANGED <<sessions, last_accessed, obj_session_id>>
         ]_vars

\* the list returned has an expired record and a live one, whose turn is in
\* progress
C19_Witness ==
    /\ lpc = "returned"
    /\ Cardinality(listing) = 2
    /\ \E e \in listing : e.session_id = "canon" /\ e.is_expired
    /\ \E e \in listing : e.session_id = "urn" /\ ~e.is_expired
    /\ InTurn("r1") /\ rsid["r1"] = "urn" /\ sessions["urn"] = rstate["r1"]
    /\ lock[rstate["r1"]] = "r1"

\* C20: a sweep lists exactly the ids whose record has now - last_accessed
\* greater than the timeout, and removes exactly the ids it listed; every
\* other id keeps its record, and every record that stays has the fields it
\* had; the mapping and the records' last_accessed do not change between the
\* listing and the removal; and a record's last_accessed changes only in
\* the resolution that returns that record, never in a turn.
C20_SweepPostcondition ==
    [][/\ \A t \in Tasks :
            /\ (tpc[t] = "scanning" /\ tpc'[t] = "deleting") =>
                   expired_ids'[t] =
                       {id \in MappedIds :
                            now - last_accessed[sessions[id]] > SESSION_TIMEOUT_MINUTES}
            /\ (tpc[t] = "deleting" /\ tpc'[t] # "deleting") =>
                   /\ tpc'[t] = "sleeping"
                   /\ \A id \in SessionIds :
                         sessions'[id] = IF id \in expired_ids[t] THEN None ELSE sessions[id]
                   /\ \A o \in Mapped' :
                         /\ last_accessed'[o] = last_accessed[o]
                         /\ obj_session_id'[o] = obj_session_id[o]
                         /\ dialogue_turn'[o] = dialogue_turn[o]
                         /\ running_total_cost_usd'[o] = running_total_cost_usd[o]
                         /\ lock'[o] = lock[o]
            /\ (tpc[t] = "deleting" /\ tpc'[t] = "deleting") =>
                   /\ sessions' = sessions
                   /\ \A o \in Mapped : last_accessed'[o] = last_accessed[o]
       /\ \A o \in Objs :
            (Referenced(o) /\ Referenced(o)' /\ last_accessed'[o] # last_accessed[o])
                => \E r \in Reqs : Resolves(r) /\ rstate'[r] = o /\ last_accessed'[o] = now
      ]_vars

\* a sweep has listed the one expired record and is about to remove it; the
\* other record has had a turn since its last resolution, which was before
\* now, and is not expired
C20_Witness ==
    /\ tpc["t1"] = "deleting"
    /\ expired_ids["t1"] = {"canon"}
    /\ sessions["urn"] # None
    /\ dialogue_turn[sessions["urn"]] = 1
    /\ last_accessed[sessions["urn"]] < now
    /\ ~is_expired(sessions["urn"])

\* C21: a client that _ensure_client has returned to a request has completed
\* connect(); outside _ensure_client the manager records a client only if
\* its connect() succeeded, so after a connect() that raised it records
\* none; and at most one client is ever connected.
C21_ConnectAllOrNothing ==
    /\ \A r \in Reqs : rclient[r] # None => rclient[r] \in connected
    /\ (clientLock = Free /\ client # None) => client \in connected
    /\ Cardinality(connected) <= 1

\* disconnect() has been called on client c and the manager has dropped it
Disconnected(c) == c # None /\ c # client /\ c \notin connected

====
